---- MODULE Spec2Model ----
(***************************************************************************)
(* The laser-machine quotation tool: the tier resolver of utils.js         *)
(* (calculatePriceByTier) and the quote calculator of app.js (appModule),  *)
(* with the page elements its handlers read and write.                     *)
(*                                                                         *)
(* Numbers.  Every JavaScript number that can carry a fraction (fees, the  *)
(* exchange rate, prices and totals) is held in tenths: 6.5 is 65.  The    *)
(* quantity is a plain integer.  The result of parseInt / parseFloat is a  *)
(* record [nan, val]; `x || d` is OrDefault.  A text is a sequence of      *)
(* one-character strings.                                                  *)
(***************************************************************************)
EXTENDS Integers, Sequences, FiniteSets

VARIABLES
    quantity,                 \* this.quantity
    exchangeRate,             \* this.exchangeRate (tenths)
    internationalShipping,    \* this.internationalShipping (tenths)
    domesticShipping,         \* this.domesticShipping (tenths)
    otherFees,                \* this.otherFees (tenths)
    selectedMachine,          \* this.selectedMachine: a machine id, or NoSelection
    selectedWaterCooler,      \* this.selectedWaterCooler: an id, or NoSelection
    selectedAccessories,      \* this.selectedAccessories: sequence of ids
    selectedOtherAccessories, \* this.selectedOtherAccessories: sequence of ids
    inputText,                \* the value last typed into #exchangeRate
    seriesSelect,             \* #seriesSelect: [value, options]
    modelSelect,              \* #modelSelect:  [value, options]
    powerSelect,              \* #powerSelect:  [value, options]
    waterCoolerChecked,       \* the checked waterCooler radio, or NoSelection
    accessoryChecked,         \* the set of checked accessory checkboxes
    otherAccessoryChecked,    \* the set of checked otherAccessory checkboxes
    optionsRendered,          \* whether the option lists have been rendered yet
    display,                  \* what calculatePrice last returned and passed to the UI
    priceTiers,               \* resolver harness: the tier list under test
    tierQuantity,             \* resolver harness: the quantity argument (a text)
    tierResult,               \* resolver harness: [called, value]
    booted,                   \* whether appModule.init() has run in this page
    history,                  \* this.history
    templates,                \* this.templates
    localStorage,             \* the items stored under quoteHistory / quoteTemplates
    historyList,              \* what updateHistoryList last rendered into #historyList
    startup,                  \* the start-up statements run so far, in the order run
    timeout,                  \* debounce: the pending timer (the arguments its `later`
                              \* captured), or NoTimer
    debounceCalls,            \* debounce harness: the arguments of the calls made since
                              \* the last execution of func
    debounceRuns,             \* debounce harness: the arguments func was executed with
    inThrottle,               \* throttle: the flag the limit timer resets
    throttleRuns,             \* throttle harness: the arguments func was executed with
    throttleLog,          \* throttle harness: the calls dropped since the last expiry
    lastOp                    \* the last init / addHistory / clearHistory: its name, the
                              \* keys whose store access failed, whether it threw, the
                              \* entry it built and the notifications it showed

vars == <<quantity, exchangeRate, internationalShipping, domesticShipping, otherFees,
          selectedMachine, selectedWaterCooler, selectedAccessories,
          selectedOtherAccessories, inputText, seriesSelect, modelSelect, powerSelect,
          waterCoolerChecked, accessoryChecked, otherAccessoryChecked,
          optionsRendered, display, priceTiers, tierQuantity, tierResult,
          booted, history, templates, localStorage, historyList, lastOp,
          startup, timeout, debounceCalls, debounceRuns, inThrottle, throttleRuns,
          throttleLog>>

appVars == <<quantity, exchangeRate, internationalShipping, domesticShipping, otherFees,
             selectedMachine, selectedWaterCooler, selectedAccessories,
             selectedOtherAccessories, inputText, seriesSelect, modelSelect, powerSelect,
             waterCoolerChecked, accessoryChecked, otherAccessoryChecked,
             optionsRendered, display>>

tierVars == <<priceTiers, tierQuantity, tierResult>>

storeVars == <<booted, history, templates, localStorage, historyList, lastOp>>

timerVars == <<timeout, debounceCalls, debounceRuns, inThrottle, throttleRuns,
               throttleLog>>

(***************************************************************************)
(* Bounds of the model.                                                    *)
(***************************************************************************)
\* Longest tier list the resolver harness draws.
MaxTiers == 3
\* Largest tier boundary (min / max) the resolver harness draws.
MaxQty == 4
\* Largest tier price the resolver harness draws (0 is drawn too).
MaxPrice == 2

(***************************************************************************)
(* JavaScript values.                                                      *)
(***************************************************************************)
\* One unit of currency in tenths.
Unit == 10

\* JavaScript null in a tier's max (app.js: `max: null`).
Null == -1

\* JavaScript null / no selection in a selection field or select value.
NoSelection == "null"

Money(n) == n * Unit

NaN == [nan |-> TRUE, val |-> 0]

Num(n) == [nan |-> FALSE, val |-> n]

DigitChars == <<"0", "1", "2", "3", "4", "5", "6", "7", "8", "9">>

IsDigit(c) == \E d \in 1..10 : DigitChars[d] = c

DigitValue(c) == (CHOOSE d \in 1..10 : DigitChars[d] = c) - 1

IsWhiteSpace(c) == c = " "

RECURSIVE SkipWhiteSpace(_)
SkipWhiteSpace(s) ==
    IF s # <<>> /\ IsWhiteSpace(Head(s)) THEN SkipWhiteSpace(Tail(s)) ELSE s

RECURSIVE DigitPrefix(_)
DigitPrefix(s) ==
    IF s # <<>> /\ IsDigit(Head(s)) THEN <<Head(s)>> \o DigitPrefix(Tail(s)) ELSE <<>>

RECURSIVE DigitsValue(_)
DigitsValue(ds) ==
    IF ds = <<>> THEN 0
    ELSE DigitsValue(SubSeq(ds, 1, Len(ds) - 1)) * 10 + DigitValue(ds[Len(ds)])

HasSign(s) == s # <<>> /\ Head(s) \in {"-", "+"}

SignOf(s) == IF s # <<>> /\ Head(s) = "-" THEN -1 ELSE 1

\* parseInt(text): leading white space, an optional sign, the longest run of
\* decimal digits; NaN when there is none.
ParseInt(text) ==
    LET s == SkipWhiteSpace(text)
        body == IF HasSign(s) THEN Tail(s) ELSE s
        ds == DigitPrefix(body)
    IN  IF ds = <<>> THEN NaN ELSE Num(SignOf(s) * DigitsValue(ds))

\* parseFloat(text), in tenths: as parseInt, then an optional "." and digits;
\* NaN when there is no digit on either side.  (Texts of the model carry at
\* most one fraction digit, so tenths are exact.)
ParseFloat(text) ==
    LET s == SkipWhiteSpace(text)
        body == IF HasSign(s) THEN Tail(s) ELSE s
        ds == DigitPrefix(body)
        rest == SubSeq(body, Len(ds) + 1, Len(body))
        fs == IF rest # <<>> /\ Head(rest) = "." THEN DigitPrefix(Tail(rest)) ELSE <<>>
        tenths == IF fs = <<>> THEN 0 ELSE DigitValue(fs[1])
    IN  IF ds = <<>> /\ fs = <<>> THEN NaN
        ELSE Num(SignOf(s) * (DigitsValue(ds) * Unit + tenths))

\* `parsed || fallback` treating only NaN as falsy (0 is kept).
OrDefault_NaNOnly(parsed, fallback) ==
    IF parsed.nan THEN fallback ELSE parsed.val

\* `parsed || fallback`: NaN and 0 are falsy.
OrDefault(parsed, fallback) ==
    IF parsed.nan \/ parsed.val = 0 THEN fallback ELSE parsed.val

RECURSIVE NatToString(_)
NatToString(n) ==
    IF n < 10 THEN <<DigitChars[n + 1]>>
    ELSE NatToString(n \div 10) \o <<DigitChars[(n % 10) + 1]>>

\* String(n) for an integer n, as parseInt applies it to a number argument.
NumberToString(n) == IF n < 0 THEN <<"-">> \o NatToString(-n) ELSE NatToString(n)

(***************************************************************************)
(* utils.js: calculatePriceByTier.                                          *)
(***************************************************************************)
TierMatches(q, tier) == q >= tier.min /\ (tier.max = Null \/ q <= tier.max)

RECURSIVE FirstMatch(_, _, _)
\* The index of the first tier from index i on that matches q; 0 when none does.
FirstMatch(q, tiers, i) ==
    IF i > Len(tiers) THEN 0
    ELSE IF TierMatches(q, tiers[i]) THEN i
    ELSE FirstMatch(q, tiers, i + 1)

\* calculatePriceByTier with the tier test off by one at the lower bound.
calculatePriceByTier_StrictMin(quantityArg, tiers) ==
    IF Len(tiers) = 0 THEN 0
    ELSE LET q == OrDefault(ParseInt(quantityArg), 1)
             hits == {i \in 1..Len(tiers) :
                        q > tiers[i].min /\ (tiers[i].max = Null \/ q <= tiers[i].max)}
         IN  IF hits # {} THEN tiers[CHOOSE i \in hits : \A j \in hits : i <= j].price
             ELSE tiers[Len(tiers)].price

\* calculatePriceByTier falling back to the first tier instead of the last.
calculatePriceByTier_FirstFallback(quantityArg, tiers) ==
    IF Len(tiers) = 0 THEN 0
    ELSE LET q == OrDefault(ParseInt(quantityArg), 1)
             i == FirstMatch(q, tiers, 1)
         IN  IF i # 0 THEN tiers[i].price ELSE tiers[1].price

calculatePriceByTier(quantityArg, tiers) ==
    IF Len(tiers) = 0 THEN 0
    ELSE LET q == OrDefault(ParseInt(quantityArg), 1)
             i == FirstMatch(q, tiers, 1)
         IN  IF i # 0 THEN tiers[i].price ELSE tiers[Len(tiers)].price

(***************************************************************************)
(* app.js: the built-in data.                                              *)
(***************************************************************************)
\* The three tiers with a gap: the second tier starts at 11, so 10 is in none.
Tiers_Gap(p1, p2, p3) ==
    << [min |-> 1, max |-> 9, price |-> Money(p1)],
       [min |-> 11, max |-> 99, price |-> Money(p2)],
       [min |-> 100, max |-> Null, price |-> Money(p3)] >>

Tiers(p1, p2, p3) ==
    << [min |-> 1, max |-> 9, price |-> Money(p1)],
       [min |-> 10, max |-> 99, price |-> Money(p2)],
       [min |-> 100, max |-> Null, price |-> Money(p3)] >>

defaultMachines ==
    << [id |-> "kh-1390-50w", series |-> "KH-1390", model |-> "1390", power |-> "50W",
        priceTiers |-> Tiers(10000, 9500, 9000)],
       [id |-> "kh-1390-80w", series |-> "KH-1390", model |-> "1390", power |-> "80W",
        priceTiers |-> Tiers(12000, 11500, 11000)],
       [id |-> "kh-1390-100w", series |-> "KH-1390", model |-> "1390", power |-> "100W",
        priceTiers |-> Tiers(14000, 13500, 13000)],
       [id |-> "kh-1610-50w", series |-> "KH-1610", model |-> "1610", power |-> "50W",
        priceTiers |-> Tiers(12000, 11500, 11000)],
       [id |-> "kh-1610-80w", series |-> "KH-1610", model |-> "1610", power |-> "80W",
        priceTiers |-> Tiers(14000, 13500, 13000)],
       [id |-> "kh-1610-100w", series |-> "KH-1610", model |-> "1610", power |-> "100W",
        priceTiers |-> Tiers(16000, 15500, 15000)] >>

defaultWaterCoolers ==
    << [id |-> "water-cooler-50w", price |-> Money(800)],
       [id |-> "water-cooler-80w", price |-> Money(1000)],
       [id |-> "water-cooler-100w", price |-> Money(1200)] >>

defaultAccessories ==
    << [id |-> "accessory-laser-tube", price |-> Money(1500)],
       [id |-> "accessory-mirror", price |-> Money(200)],
       [id |-> "accessory-lens", price |-> Money(150)],
       [id |-> "accessory-power-supply", price |-> Money(800)] >>

defaultOtherAccessories ==
    << [id |-> "other-accessory-chiller", price |-> Money(2000)],
       [id |-> "other-accessory-exhaust-fan", price |-> Money(300)],
       [id |-> "other-accessory-air-compressor", price |-> Money(1500)],
       [id |-> "other-accessory-software", price |-> Money(1000)],
       [id |-> "other-accessory-training", price |-> Money(500)],
       [id |-> "other-accessory-warranty", price |-> Money(800)] >>

\* Array.prototype.find by id: the index of the first item with that id, 0 when none.
RECURSIVE FindById(_, _, _)
FindById(items, id, i) ==
    IF i > Len(items) THEN 0
    ELSE IF items[i].id = id THEN i
    ELSE FindById(items, id, i + 1)

\* The machine record of a selected machine id.
MachineOf(id) == defaultMachines[FindById(defaultMachines, id, 1)]

(***************************************************************************)
(* app.js: calculatePrice.                                                 *)
(***************************************************************************)
\* The quote fields calculatePrice reads from `this`.
Quote ==
    [quantity |-> quantity, exchangeRate |-> exchangeRate,
     internationalShipping |-> internationalShipping,
     domesticShipping |-> domesticShipping, otherFees |-> otherFees,
     selectedMachine |-> selectedMachine, selectedWaterCooler |-> selectedWaterCooler,
     selectedAccessories |-> selectedAccessories,
     selectedOtherAccessories |-> selectedOtherAccessories]

\* priceTiers.find(...)?.price || priceTiers[0].price
machineUnitPrice(q, tiers) ==
    LET i == FirstMatch(q, tiers, 1)
    IN  IF i # 0 /\ tiers[i].price # 0 THEN tiers[i].price ELSE tiers[1].price

\* The machine block without its `if (this.selectedMachine)` guard: reading
\* priceTiers of null throws.
machinePriceThrows_NoGuard(st) == st.selectedMachine = NoSelection

\* Whether the machine block throws: priceTiers[0] is undefined for an empty list
\* when find matched nothing (or matched a price of 0).
machinePriceThrows(st) ==
    /\ st.selectedMachine # NoSelection
    /\ LET tiers == MachineOf(st.selectedMachine).priceTiers
           i == FirstMatch(st.quantity, tiers, 1)
       IN  (i = 0 \/ tiers[i].price = 0) /\ Len(tiers) = 0

\* The machine block without the multiplication by this.quantity.
machinePriceOf_PerOrder(st) ==
    IF st.selectedMachine # NoSelection
    THEN machineUnitPrice(st.quantity, MachineOf(st.selectedMachine).priceTiers)
    ELSE 0

machinePriceOf(st) ==
    IF st.selectedMachine # NoSelection
    THEN machineUnitPrice(st.quantity, MachineOf(st.selectedMachine).priceTiers)
         * st.quantity
    ELSE 0

\* The water-cooler block without the multiplication by this.quantity.
waterCoolerPriceOf_PerOrder(st) ==
    IF st.selectedWaterCooler # NoSelection
    THEN LET i == FindById(defaultWaterCoolers, st.selectedWaterCooler, 1)
         IN  IF i # 0 THEN defaultWaterCoolers[i].price ELSE 0
    ELSE 0

waterCoolerPriceOf(st) ==
    IF st.selectedWaterCooler # NoSelection
    THEN LET i == FindById(defaultWaterCoolers, st.selectedWaterCooler, 1)
         IN  IF i # 0 THEN defaultWaterCoolers[i].price * st.quantity ELSE 0
    ELSE 0

RECURSIVE SumPrices(_, _)
\* forEach over the selected ids, adding the price of each id found in `items`.
SumPrices(ids, items) ==
    IF ids = <<>> THEN 0
    ELSE LET i == FindById(items, Head(ids), 1)
         IN  (IF i # 0 THEN items[i].price ELSE 0) + SumPrices(Tail(ids), items)

\* The accessories block scaling by quantity, as the machine block does.
accessoriesPriceOf_PerUnit(st) ==
    SumPrices(st.selectedAccessories, defaultAccessories) * st.quantity

accessoriesPriceOf(st) == SumPrices(st.selectedAccessories, defaultAccessories)

otherAccessoriesPriceOf(st) ==
    SumPrices(st.selectedOtherAccessories, defaultOtherAccessories)

\* The total without this.otherFees.
totalPriceOf_NoOtherFees(machinePrice, waterCoolerPrice, accessoriesPrice, otherAccessoriesPrice, st) ==
    machinePrice + waterCoolerPrice + accessoriesPrice + otherAccessoriesPrice
    + st.internationalShipping + st.domesticShipping

\* const totalPrice = machinePrice + waterCoolerPrice + accessoriesPrice +
\*     otherAccessoriesPrice + this.internationalShipping + this.domesticShipping +
\*     this.otherFees
totalPriceOf(machinePrice, waterCoolerPrice, accessoriesPrice, otherAccessoriesPrice, st) ==
    machinePrice + waterCoolerPrice + accessoriesPrice + otherAccessoriesPrice
    + st.internationalShipping + st.domesticShipping + st.otherFees

\* totalPrice / this.exchangeRate, kept exact as numerator over denominator; a
\* denominator of 0 is JavaScript's Infinity or NaN.
usdPriceOf(totalPrice, st) == [num |-> totalPrice, den |-> st.exchangeRate]

\* calculatePrice keeping a running total across calls: each call adds what the
\* previous call returned.
calculatePrice_Accumulating(st, shown) ==
    LET machinePrice == machinePriceOf(st)
        waterCoolerPrice == waterCoolerPriceOf(st)
        accessoriesPrice == accessoriesPriceOf(st)
        otherAccessoriesPrice == otherAccessoriesPriceOf(st)
        totalPrice == shown.total + totalPriceOf(machinePrice, waterCoolerPrice,
                                                 accessoriesPrice, otherAccessoriesPrice, st)
    IN  [threw |-> FALSE,
         total |-> totalPrice,
         cnyPrice |-> totalPrice,
         usdPrice |-> usdPriceOf(totalPrice, st),
         details |->
             [machinePrice |-> machinePrice,
              waterCoolerPrice |-> waterCoolerPrice,
              accessoriesPrice |-> accessoriesPrice,
              otherAccessoriesPrice |-> otherAccessoriesPrice,
              internationalShipping |-> st.internationalShipping,
              domesticShipping |-> st.domesticShipping,
              otherFees |-> st.otherFees,
              quantity |-> st.quantity,
              total |-> totalPrice]]

\* calculatePrice on the quote fields st: the value returned (total), what
\* updatePriceDisplay receives (cnyPrice, usdPrice) and what updatePriceDetails
\* receives (details).  When the machine block throws, what is shown stays.
calculatePrice(st, shown) ==
    IF machinePriceThrows(st) THEN [shown EXCEPT !.threw = TRUE]
    ELSE LET machinePrice == machinePriceOf(st)
             waterCoolerPrice == waterCoolerPriceOf(st)
             accessoriesPrice == accessoriesPriceOf(st)
             otherAccessoriesPrice == otherAccessoriesPriceOf(st)
             totalPrice == totalPriceOf(machinePrice, waterCoolerPrice,
                                        accessoriesPrice, otherAccessoriesPrice, st)
         IN  [threw |-> FALSE,
              total |-> totalPrice,
              cnyPrice |-> totalPrice,
              usdPrice |-> usdPriceOf(totalPrice, st),
              details |->
                  [machinePrice |-> machinePrice,
                   waterCoolerPrice |-> waterCoolerPrice,
                   accessoriesPrice |-> accessoriesPrice,
                   otherAccessoriesPrice |-> otherAccessoriesPrice,
                   internationalShipping |-> st.internationalShipping,
                   domesticShipping |-> st.domesticShipping,
                   otherFees |-> st.otherFees,
                   quantity |-> st.quantity,
                   total |-> totalPrice]]

(***************************************************************************)
(* The page: what the user can type and pick.                              *)
(***************************************************************************)
\* Texts the user types into #exchangeRate: "0", "abc", "-2", "7.2".
ExchangeRateTexts ==
    { <<"0">>, <<"a", "b", "c">>, <<"-", "2">>, <<"7", ".", "2">> }

\* Texts the user types into #quantity: "", "0", "abc", "-5", "10".
QuantityTexts ==
    { <<>>, <<"0">>, <<"a", "b", "c">>, <<"-", "5">>, <<"1", "0">> }

\* Texts the user types into #internationalShipping: "", "200".
InternationalShippingTexts == { <<>>, <<"2", "0", "0">> }

\* Texts the user types into #domesticShipping: "", "100".
DomesticShippingTexts == { <<>>, <<"1", "0", "0">> }

\* Texts the user types into #otherFees: "", "50".
OtherFeesTexts == { <<>>, <<"5", "0">> }

\* The radios and checkboxes the user clicks (the lists render every item).
ClickedWaterCoolers == { "water-cooler-50w" }

ClickedAccessories == { "accessory-laser-tube", "accessory-mirror" }

ClickedOtherAccessories == { "other-accessory-chiller" }

\* The power options the user picks, when the select offers them.
PickedPowers == { "", "50W" }

\* The value of a placeholder <option value="">.
Placeholder == ""

\* updateMachineOptions: the placeholder and every series of defaultMachines.
SeriesOptions ==
    {Placeholder} \cup {defaultMachines[i].series : i \in 1..Len(defaultMachines)}

\* updateModelOptions(series): the model select it leaves behind.
ModelOptionsFor(series) ==
    IF series # Placeholder
    THEN {Placeholder} \cup
         {defaultMachines[i].model :
            i \in {j \in 1..Len(defaultMachines) : defaultMachines[j].series = series}}
    ELSE {Placeholder}

\* updatePowerOptions(model): the power select it leaves behind, for the series
\* #seriesSelect holds.
PowerOptionsFor(series, model) ==
    IF model # Placeholder
    THEN {Placeholder} \cup
         {defaultMachines[i].power :
            i \in {j \in 1..Len(defaultMachines) :
                     defaultMachines[j].series = series /\ defaultMachines[j].model = model}}
    ELSE {Placeholder}

RECURSIVE FindMachine(_, _, _, _)
\* defaultMachines.find(series, model, power): the index, 0 when none (undefined).
FindMachine(series, model, power, i) ==
    IF i > Len(defaultMachines) THEN 0
    ELSE IF /\ defaultMachines[i].series = series
            /\ defaultMachines[i].model = model
            /\ defaultMachines[i].power = power THEN i
    ELSE FindMachine(series, model, power, i + 1)

\* selectMachine(power): the value of this.selectedMachine afterwards.
selectMachine(power) ==
    IF seriesSelect.value # Placeholder /\ modelSelect.value # Placeholder
       /\ power # Placeholder
    THEN LET i == FindMachine(seriesSelect.value, modelSelect.value, power, 1)
         IN  IF i # 0 THEN defaultMachines[i].id ELSE NoSelection
    ELSE selectedMachine

RECURSIVE CheckedInOrder(_, _)
\* querySelectorAll(':checked') mapped to values: the checked ids in document
\* order, which is the order of the list the checkboxes were rendered from.
CheckedInOrder(items, checked) ==
    IF items = <<>> THEN <<>>
    ELSE (IF Head(items).id \in checked THEN <<Head(items).id>> ELSE <<>>)
         \o CheckedInOrder(Tail(items), checked)

(***************************************************************************)
(* utils.js: the local-storage helpers, generateUniqueId, formatDateTime.  *)
(*                                                                         *)
(* A stored item is what localStorage.getItem returns: null for a missing  *)
(* key, the empty text, a text JSON.parse rejects, or the JSON text of a   *)
(* value.  Characters outside ASCII are transliterated: the yen sign is    *)
(* "CNY ", the multiplication sign is "x", a notification is named by an   *)
(* English gloss of its message.                                           *)
(***************************************************************************)
\* getItem of a key that is not stored: null.
Missing == [kind |-> "null", value |-> <<>>]

\* The stored text "".
EmptyText == [kind |-> "empty", value |-> <<>>]

\* A stored text JSON.parse rejects with a SyntaxError.
CorruptText == [kind |-> "corrupt", value |-> <<>>]

\* JSON.stringify(value): the JSON text of value.
JSONstringify(value) == [kind |-> "json", value |-> value]

\* JSON.parse(item): the value of a JSON text; throws on any other text.
JSONparse(item) ==
    IF item.kind = "json" THEN [threw |-> FALSE, value |-> item.value]
    ELSE [threw |-> TRUE, value |-> <<>>]

\* The JavaScript value null: a value that is no array.
JSNull == [i \in {0} |-> "null"]

\* Array.isArray(v).
IsArray(v) == DOMAIN v = 1..Cardinality(DOMAIN v)

\* getFromLocalStorage called without its second argument: defaultValue is null.
getFromLocalStorage_NullDefault(key, defaultValue, rejects) ==
    IF rejects THEN [failed |-> TRUE, value |-> JSNull]
    ELSE IF localStorage[key].kind \in {"null", "empty"}
         THEN [failed |-> FALSE, value |-> JSNull]
    ELSE IF JSONparse(localStorage[key]).threw
         THEN [failed |-> TRUE, value |-> JSNull]
    ELSE [failed |-> FALSE, value |-> JSONparse(localStorage[key]).value]

\* getFromLocalStorage(key, defaultValue): the value returned, and whether the
\* access failed (getItem threw because the store rejects the read, or
\* JSON.parse threw); a failure is caught and logged to the console.
getFromLocalStorage(key, defaultValue, rejects) ==
    IF rejects THEN [failed |-> TRUE, value |-> defaultValue]
    ELSE IF localStorage[key].kind \in {"null", "empty"}
         THEN [failed |-> FALSE, value |-> defaultValue]
    ELSE IF JSONparse(localStorage[key]).threw
         THEN [failed |-> TRUE, value |-> defaultValue]
    ELSE [failed |-> FALSE, value |-> JSONparse(localStorage[key]).value]

\* saveToLocalStorage without its try / catch: a rejected setItem propagates.
saveToLocalStorage_NoCatch(key, value, rejects) ==
    IF rejects
    THEN [threw |-> TRUE, failed |-> TRUE, returned |-> FALSE, store |-> localStorage]
    ELSE [threw |-> FALSE, failed |-> FALSE, returned |-> TRUE,
          store |-> [localStorage EXCEPT ![key] = JSONstringify(value)]]

\* saveToLocalStorage writing under the other key.
saveToLocalStorage_WrongKey(key, value, rejects) ==
    IF rejects
    THEN [threw |-> FALSE, failed |-> TRUE, returned |-> FALSE, store |-> localStorage]
    ELSE [threw |-> FALSE, failed |-> FALSE, returned |-> TRUE,
          store |-> [localStorage EXCEPT
                       ![IF key = "quoteHistory" THEN "quoteTemplates" ELSE "quoteHistory"]
                           = JSONstringify(value)]]

\* saveToLocalStorage(key, value): whether an exception leaves the helper,
\* whether setItem threw (store unavailable, quota exceeded), the boolean
\* returned and the store afterwards; a failure is caught and logged to the
\* console.
saveToLocalStorage(key, value, rejects) ==
    IF rejects
    THEN [threw |-> FALSE, failed |-> TRUE, returned |-> FALSE, store |-> localStorage]
    ELSE [threw |-> FALSE, failed |-> FALSE, returned |-> TRUE,
          store |-> [localStorage EXCEPT ![key] = JSONstringify(value)]]

\* generateUniqueId(): Date.now() in base 36 followed by random digits; any of
\* these texts can come back, the same one twice included.
UniqueIds == { "lq1x2k9a", "lq1x2k9b" }

\* formatDateTime(new Date()): the clock's reading as zh-CN text.
DateTimes == { "2024/01/15 10:30:00" }

\* Number.prototype.toFixed(2) of a number held in tenths.
toFixed2(n) ==
    (IF n < 0 THEN <<"-">> ELSE <<>>)
    \o NatToString((IF n < 0 THEN -n ELSE n) \div Unit)
    \o <<".", DigitChars[((IF n < 0 THEN -n ELSE n) % Unit) + 1], "0">>

(***************************************************************************)
(* main.js: the start-up statements, and the debounce / throttle closures  *)
(* at rest.                                                                *)
(***************************************************************************)
\* The last element of a non-empty sequence.
Last(seq) == seq[Len(seq)]

\* The start-up order with appModule.init registering its listeners before it
\* sets the default data.
nextStep_ListenersFirst(done) ==
    IF done = <<>> THEN "setupErrorHandling"
    ELSE CASE Last(done) = "setupErrorHandling" -> "bindEventListeners"
           [] Last(done) = "bindEventListeners" -> "ui.module.init"
           [] Last(done) = "ui.module.init" -> "initEventListeners"
           [] Last(done) = "initEventListeners" -> "initDefaultData"
           [] Last(done) = "initDefaultData" -> "updateMachineOptions"
           [] Last(done) = "updateMachineOptions" -> "calculatePrice"
           [] Last(done) = "calculatePrice" -> "notification.show"
           [] OTHER -> "none"

\* The statement that runs next when the statements of `done` have run:
\* mainModule.init (setupErrorHandling, bindEventListeners), then on
\* DOMContentLoaded mainModule.initApp (ui.module.init, app.init, the
\* notification), with appModule.init unfolded into its four calls.
nextStep(done) ==
    IF done = <<>> THEN "setupErrorHandling"
    ELSE CASE Last(done) = "setupErrorHandling" -> "bindEventListeners"
           [] Last(done) = "bindEventListeners" -> "ui.module.init"
           [] Last(done) = "ui.module.init" -> "initDefaultData"
           [] Last(done) = "initDefaultData" -> "initEventListeners"
           [] Last(done) = "initEventListeners" -> "updateMachineOptions"
           [] Last(done) = "updateMachineOptions" -> "calculatePrice"
           [] Last(done) = "calculatePrice" -> "notification.show"
           [] OTHER -> "none"

RECURSIVE RunFrom(_)
\* The statements run when start-up continues from `done` to its end.
RunFrom(done) ==
    IF nextStep(done) = "none" THEN done
    ELSE RunFrom(Append(done, nextStep(done)))

\* No timer pending.
NoTimer == <<>>

\* The closures of debounce and throttle as created: `let timeout;`,
\* `let inThrottle;` (undefined, which `!inThrottle` reads as false).
InitTimerIdle ==
    /\ timeout = NoTimer
    /\ debounceCalls = <<>>
    /\ debounceRuns = <<>>
    /\ inThrottle = FALSE
    /\ throttleRuns = <<>>
    /\ throttleLog = <<>>

(***************************************************************************)
(* The state after appModule.init().                                       *)
(***************************************************************************)
DefaultExchangeRate == 65

DefaultQuantity == 1

DefaultFee == 0

InitialQuote ==
    [quantity |-> DefaultQuantity, exchangeRate |-> DefaultExchangeRate,
     internationalShipping |-> DefaultFee, domesticShipping |-> DefaultFee,
     otherFees |-> DefaultFee,
     selectedMachine |-> NoSelection, selectedWaterCooler |-> NoSelection,
     selectedAccessories |-> <<>>, selectedOtherAccessories |-> <<>>]

NoDisplay ==
    [threw |-> FALSE, total |-> 0, cnyPrice |-> 0,
     usdPrice |-> [num |-> 0, den |-> 1],
     details |-> [machinePrice |-> 0, waterCoolerPrice |-> 0, accessoriesPrice |-> 0,
                  otherAccessoriesPrice |-> 0, internationalShipping |-> 0,
                  domesticShipping |-> 0, otherFees |-> 0, quantity |-> 0,
                  total |-> 0]]

InitApp ==
    /\ quantity = DefaultQuantity
    /\ exchangeRate = DefaultExchangeRate
    /\ internationalShipping = DefaultFee
    /\ domesticShipping = DefaultFee
    /\ otherFees = DefaultFee
    /\ selectedMachine = NoSelection
    /\ selectedWaterCooler = NoSelection
    /\ selectedAccessories = <<>>
    /\ selectedOtherAccessories = <<>>
    /\ inputText = [exchangeRate |-> <<>>]
    /\ seriesSelect = [value |-> Placeholder, options |-> SeriesOptions]
    /\ modelSelect = [value |-> Placeholder, options |-> {Placeholder}]
    /\ powerSelect = [value |-> Placeholder, options |-> {Placeholder}]
    /\ waterCoolerChecked = NoSelection
    /\ accessoryChecked = {}
    /\ otherAccessoryChecked = {}
    /\ optionsRendered = FALSE
    /\ display = calculatePrice(InitialQuote, NoDisplay)

InitTierIdle ==
    /\ priceTiers = <<>>
    /\ tierQuantity = <<>>
    /\ tierResult = [called |-> FALSE, value |-> 0]

\* The state of the history and the store in a page whose store holds nothing:
\* loadHistory and loadTemplates found no item, initApp announced success.
InitStoreIdle ==
    /\ booted = TRUE
    /\ history = <<>>
    /\ templates = <<>>
    /\ localStorage = [quoteHistory |-> Missing, quoteTemplates |-> Missing]
    /\ historyList = <<>>
    /\ startup = RunFrom(<<>>)
    /\ lastOp = [name |-> "init", failed |-> {}, threw |-> FALSE, entry |-> <<>>,
                 notified |-> <<[message |-> "application initialised",
                                 type |-> "success"]>>]

Init == InitApp /\ InitTierIdle /\ InitStoreIdle /\ InitTimerIdle

(***************************************************************************)
(* app.js: the handlers initEventListeners registers.                      *)
(***************************************************************************)
pageVars == <<seriesSelect, modelSelect, powerSelect, waterCoolerChecked,
              accessoryChecked, otherAccessoryChecked, optionsRendered>>

selectionVars == <<selectedMachine, selectedWaterCooler, selectedAccessories,
                   selectedOtherAccessories>>

ExchangeRateInput(text) ==
    /\ inputText' = [inputText EXCEPT !.exchangeRate = text]
    /\ exchangeRate' = OrDefault(ParseFloat(text), DefaultExchangeRate)
    /\ display' = calculatePrice([Quote EXCEPT !.exchangeRate = exchangeRate'], display)
    /\ UNCHANGED <<quantity, internationalShipping, domesticShipping, otherFees,
                   selectionVars, pageVars, tierVars,
                   storeVars, timerVars, startup>>

\* The quantity handler without its call of calculatePrice.
QuantityInput_NoRecalculate(text) ==
    /\ quantity' = OrDefault(ParseInt(text), DefaultQuantity)
    /\ UNCHANGED <<exchangeRate, internationalShipping, domesticShipping, otherFees,
                   inputText, selectionVars, pageVars, display, tierVars,
                   storeVars, timerVars, startup>>

QuantityInput(text) ==
    /\ quantity' = OrDefault(ParseInt(text), DefaultQuantity)
    /\ display' = calculatePrice([Quote EXCEPT !.quantity = quantity'], display)
    /\ UNCHANGED <<exchangeRate, internationalShipping, domesticShipping, otherFees,
                   inputText, selectionVars, pageVars, tierVars,
                   storeVars, timerVars, startup>>

InternationalShippingInput(text) ==
    /\ internationalShipping' = OrDefault(ParseFloat(text), DefaultFee)
    /\ display' = calculatePrice(
                      [Quote EXCEPT !.internationalShipping = internationalShipping'], display)
    /\ UNCHANGED <<quantity, exchangeRate, domesticShipping, otherFees,
                   inputText, selectionVars, pageVars, tierVars,
                   storeVars, timerVars, startup>>

DomesticShippingInput(text) ==
    /\ domesticShipping' = OrDefault(ParseFloat(text), DefaultFee)
    /\ display' = calculatePrice([Quote EXCEPT !.domesticShipping = domesticShipping'], display)
    /\ UNCHANGED <<quantity, exchangeRate, internationalShipping, otherFees,
                   inputText, selectionVars, pageVars, tierVars,
                   storeVars, timerVars, startup>>

OtherFeesInput(text) ==
    /\ otherFees' = OrDefault(ParseFloat(text), DefaultFee)
    /\ display' = calculatePrice([Quote EXCEPT !.otherFees = otherFees'], display)
    /\ UNCHANGED <<quantity, exchangeRate, internationalShipping, domesticShipping,
                   inputText, selectionVars, pageVars, tierVars,
                   storeVars, timerVars, startup>>

\* updateWaterCoolerOptions / updateAccessoryOptions / updateOtherAccessoryOptions:
\* every list is rebuilt from innerHTML, so nothing is checked afterwards.
RenderOptionLists ==
    /\ waterCoolerChecked' = NoSelection
    /\ accessoryChecked' = {}
    /\ otherAccessoryChecked' = {}
    /\ optionsRendered' = TRUE

\* The series handler without `this.selectedMachine = null`.
SeriesChange_KeepsMachine(series) ==
    /\ series \in seriesSelect.options
    /\ series # seriesSelect.value
    /\ seriesSelect' = [seriesSelect EXCEPT !.value = series]
    /\ modelSelect' = [value |-> Placeholder, options |-> ModelOptionsFor(series)]
    /\ powerSelect' = [value |-> Placeholder, options |-> {Placeholder}]
    /\ RenderOptionLists
    /\ display' = calculatePrice(Quote, display)
    /\ UNCHANGED <<quantity, exchangeRate, internationalShipping, domesticShipping,
                   otherFees, selectionVars, inputText, tierVars, storeVars, timerVars,
                   startup>>

SeriesChange(series) ==
    /\ series \in seriesSelect.options
    /\ series # seriesSelect.value
    /\ seriesSelect' = [seriesSelect EXCEPT !.value = series]
    /\ modelSelect' = [value |-> Placeholder, options |-> ModelOptionsFor(series)]
    /\ powerSelect' = [value |-> Placeholder, options |-> {Placeholder}]
    /\ RenderOptionLists
    /\ selectedMachine' = NoSelection
    /\ display' = calculatePrice([Quote EXCEPT !.selectedMachine = selectedMachine'], display)
    /\ UNCHANGED <<quantity, exchangeRate, internationalShipping, domesticShipping,
                   otherFees, selectedWaterCooler, selectedAccessories,
                   selectedOtherAccessories, inputText, tierVars,
                   storeVars, timerVars, startup>>

ModelChange(model) ==
    /\ model \in modelSelect.options
    /\ model # modelSelect.value
    /\ modelSelect' = [modelSelect EXCEPT !.value = model]
    /\ powerSelect' = [value |-> Placeholder,
                       options |-> PowerOptionsFor(seriesSelect.value, model)]
    /\ RenderOptionLists
    /\ selectedMachine' = NoSelection
    /\ display' = calculatePrice([Quote EXCEPT !.selectedMachine = selectedMachine'], display)
    /\ UNCHANGED <<quantity, exchangeRate, internationalShipping, domesticShipping,
                   otherFees, selectedWaterCooler, selectedAccessories,
                   selectedOtherAccessories, inputText, seriesSelect, tierVars,
                   storeVars, timerVars, startup>>

PowerChange(power) ==
    /\ power \in powerSelect.options
    /\ power # powerSelect.value
    /\ powerSelect' = [powerSelect EXCEPT !.value = power]
    /\ selectedMachine' = selectMachine(power)
    /\ display' = calculatePrice([Quote EXCEPT !.selectedMachine = selectedMachine'], display)
    /\ UNCHANGED <<quantity, exchangeRate, internationalShipping, domesticShipping,
                   otherFees, selectedWaterCooler, selectedAccessories,
                   selectedOtherAccessories, inputText, seriesSelect, modelSelect,
                   waterCoolerChecked, accessoryChecked, otherAccessoryChecked,
                   optionsRendered, tierVars,
                   storeVars, timerVars, startup>>

WaterCoolerChange(id) ==
    /\ optionsRendered
    /\ id # waterCoolerChecked
    /\ waterCoolerChecked' = id
    /\ selectedWaterCooler' = id
    /\ display' = calculatePrice(
                      [Quote EXCEPT !.selectedWaterCooler = selectedWaterCooler'], display)
    /\ UNCHANGED <<quantity, exchangeRate, internationalShipping, domesticShipping,
                   otherFees, selectedMachine, selectedAccessories,
                   selectedOtherAccessories, inputText, seriesSelect, modelSelect,
                   powerSelect, accessoryChecked, otherAccessoryChecked,
                   optionsRendered, tierVars,
                   storeVars, timerVars, startup>>

AccessoryChange(id) ==
    /\ optionsRendered
    /\ accessoryChecked' = IF id \in accessoryChecked THEN accessoryChecked \ {id}
                           ELSE accessoryChecked \cup {id}
    /\ selectedAccessories' = CheckedInOrder(defaultAccessories, accessoryChecked')
    /\ display' = calculatePrice(
                      [Quote EXCEPT !.selectedAccessories = selectedAccessories'], display)
    /\ UNCHANGED <<quantity, exchangeRate, internationalShipping, domesticShipping,
                   otherFees, selectedMachine, selectedWaterCooler,
                   selectedOtherAccessories, inputText, seriesSelect, modelSelect,
                   powerSelect, waterCoolerChecked, otherAccessoryChecked,
                   optionsRendered, tierVars,
                   storeVars, timerVars, startup>>

OtherAccessoryChange(id) ==
    /\ optionsRendered
    /\ otherAccessoryChecked' =
           IF id \in otherAccessoryChecked THEN otherAccessoryChecked \ {id}
           ELSE otherAccessoryChecked \cup {id}
    /\ selectedOtherAccessories' =
           CheckedInOrder(defaultOtherAccessories, otherAccessoryChecked')
    /\ display' = calculatePrice(
                      [Quote EXCEPT !.selectedOtherAccessories = selectedOtherAccessories'], display)
    /\ UNCHANGED <<quantity, exchangeRate, internationalShipping, domesticShipping,
                   otherFees, selectedMachine, selectedWaterCooler, selectedAccessories,
                   inputText, seriesSelect, modelSelect, powerSelect,
                   waterCoolerChecked, accessoryChecked, optionsRendered, tierVars,
                   storeVars, timerVars, startup>>

Next ==
    \/ \E text \in ExchangeRateTexts : ExchangeRateInput(text)
    \/ \E text \in QuantityTexts : QuantityInput(text)
    \/ \E text \in InternationalShippingTexts : InternationalShippingInput(text)
    \/ \E text \in DomesticShippingTexts : DomesticShippingInput(text)
    \/ \E text \in OtherFeesTexts : OtherFeesInput(text)
    \/ \E series \in SeriesOptions : SeriesChange(series)
    \/ \E model \in ModelOptionsFor(seriesSelect.value) : ModelChange(model)
    \/ \E power \in PickedPowers : PowerChange(power)
    \/ \E id \in ClickedWaterCoolers : WaterCoolerChange(id)
    \/ \E id \in ClickedAccessories : AccessoryChange(id)
    \/ \E id \in ClickedOtherAccessories : OtherAccessoryChange(id)

Spec == Init /\ [][Next]_vars

(***************************************************************************)
(* The resolver on its own: calculatePriceByTier applied to drawn tier     *)
(* lists and quantity arguments.                                           *)
(***************************************************************************)
\* The tiers that start at lo or later: min <= max or max unbounded.
TierRecordsFrom(lo) ==
    { [min |-> a, max |-> b, price |-> p] :
        a \in lo..MaxQty, b \in (lo..MaxQty) \cup {Null}, p \in 0..MaxPrice }

RECURSIVE OrderedTierLists(_, _)
\* The tier lists of at most n tiers in ascending order without overlap, the
\* first starting at lo or later: well-formed tables, tables with gaps, tables
\* whose last tier is bounded.  An unbounded tier ends its list.
OrderedTierLists(lo, n) ==
    IF n = 0 THEN {<<>>}
    ELSE {<<>>} \cup
         UNION { { <<t>> \o rest :
                     rest \in IF t.max = Null THEN {<<>>}
                              ELSE OrderedTierLists(t.max + 1, n - 1) } :
                 t \in {r \in TierRecordsFrom(lo) : r.max = Null \/ r.max >= r.min} }

\* The quantity arguments: "0" .. String(MaxQty + 1), "abc", "-1", "".
TierQuantityTexts ==
    { NumberToString(n) : n \in 0..(MaxQty + 1) }
    \cup { <<"a", "b", "c">>, <<"-", "1">>, <<>> }

InitTier ==
    /\ InitApp
    /\ priceTiers \in OrderedTierLists(1, MaxTiers)
    /\ tierQuantity = <<>>
    /\ tierResult = [called |-> FALSE, value |-> 0]
    /\ InitStoreIdle
    /\ InitTimerIdle

ResolveTier(quantityArg) ==
    /\ tierQuantity' = quantityArg
    /\ tierResult' = [called |-> TRUE,
                      value |-> calculatePriceByTier(quantityArg, priceTiers)]
    /\ UNCHANGED <<priceTiers, appVars, storeVars, timerVars, startup>>

TierNext == \E quantityArg \in TierQuantityTexts : ResolveTier(quantityArg)

TierSpec == InitTier /\ [][TierNext]_vars

(***************************************************************************)
(* The quote history and the store: the page from before DOMContentLoaded, *)
(* appModule.init with its two loads, addHistory, clearHistory, and the    *)
(* handlers that select a machine and set the quantity.                    *)
(***************************************************************************)
\* Most entries the history is grown to.
MaxHistory == 2

\* A field of appModule before initDefaultData assigned it.
Undefined == "undefined"

\* The notification initApp shows after appModule.init() returned.
InitSuccess == [message |-> "application initialised", type |-> "success"]

\* The notification clearHistory shows.
HistoryCleared == [message |-> "history cleared", type |-> "success"]

\* The notification the window 'error' handler shows for an uncaught exception.
UncaughtError == [message |-> "an error occurred, see the console", type |-> "danger"]

\* The historyItem object addHistory builds from the id, the clock's reading, the
\* total calculatePrice returned, the selected machine and the quantity.
historyItem(id, date, total, machine, qty) ==
    [id |-> id,
     date |-> date,
     total |-> <<"CNY ">> \o toFixed2(total),
     details |-> <<machine.series, " ", machine.model, " ", machine.power, " x ">>
                 \o NumberToString(qty)]

\* Array.prototype.push in place of unshift: the item goes to the end.
unshift_Push(list, item) == list \o <<item>>

\* unshift followed by a cap that keeps only the newest entry.
unshift_Capped(list, item) == <<item>>

\* Array.prototype.unshift: the list afterwards.
unshift(list, item) == <<item>> \o list

\* An entry and a template an earlier session of the page stored.
EarlierEntry ==
    historyItem("lq1x2k9a", "2024/01/15 10:30:00", Money(10000), defaultMachines[1], 1)

EarlierTemplate == [name |-> "template"]

\* What the store can hold under quoteHistory when the page is opened: nothing,
\* the empty text, a text that is no JSON, or the list an earlier session saved.
StoredHistories == { Missing, EmptyText, CorruptText, JSONstringify(<<EarlierEntry>>) }

\* What the store can hold under quoteTemplates when the page is opened.
StoredTemplates == { Missing, CorruptText, JSONstringify(<<EarlierTemplate>>) }

\* The page before DOMContentLoaded: no field of appModule is assigned, the
\* selects hold their placeholder, nothing is shown.
InitPage ==
    /\ quantity = Undefined
    /\ exchangeRate = Undefined
    /\ internationalShipping = Undefined
    /\ domesticShipping = Undefined
    /\ otherFees = Undefined
    /\ selectedMachine = Undefined
    /\ selectedWaterCooler = Undefined
    /\ selectedAccessories = Undefined
    /\ selectedOtherAccessories = Undefined
    /\ inputText = [exchangeRate |-> <<>>]
    /\ seriesSelect = [value |-> Placeholder, options |-> {Placeholder}]
    /\ modelSelect = [value |-> Placeholder, options |-> {Placeholder}]
    /\ powerSelect = [value |-> Placeholder, options |-> {Placeholder}]
    /\ waterCoolerChecked = NoSelection
    /\ accessoryChecked = {}
    /\ otherAccessoryChecked = {}
    /\ optionsRendered = FALSE
    /\ display = NoDisplay
    /\ booted = FALSE
    /\ history = Undefined
    /\ templates = Undefined
    /\ localStorage \in [quoteHistory : StoredHistories, quoteTemplates : StoredTemplates]
    /\ historyList = <<>>
    /\ lastOp = [name |-> "none", failed |-> {}, threw |-> FALSE, entry |-> <<>>,
                 notified |-> <<>>]

\* mainModule.initApp: appModule.init() (initDefaultData with loadHistory and
\* loadTemplates, initEventListeners, updateMachineOptions, calculatePrice), then
\* the success notification.  The store may reject either read.
AppInit(rejectsHistory, rejectsTemplates) ==
    /\ ~booted
    /\ booted' = TRUE
    /\ startup' = RunFrom(startup)
    /\ exchangeRate' = DefaultExchangeRate
    /\ quantity' = DefaultQuantity
    /\ internationalShipping' = DefaultFee
    /\ domesticShipping' = DefaultFee
    /\ otherFees' = DefaultFee
    /\ selectedMachine' = NoSelection
    /\ selectedWaterCooler' = NoSelection
    /\ selectedAccessories' = <<>>
    /\ selectedOtherAccessories' = <<>>
    /\ LET loadedHistory == getFromLocalStorage("quoteHistory", <<>>, rejectsHistory)
           loadedTemplates == getFromLocalStorage("quoteTemplates", <<>>, rejectsTemplates)
       IN  /\ history' = loadedHistory.value
           /\ historyList' = IF IsArray(loadedHistory.value) THEN loadedHistory.value
                             ELSE <<>>
           /\ templates' = loadedTemplates.value
           /\ lastOp' = [name |-> "init",
                         failed |-> (IF loadedHistory.failed THEN {"quoteHistory"} ELSE {})
                                    \cup (IF loadedTemplates.failed THEN {"quoteTemplates"}
                                          ELSE {}),
                         threw |-> FALSE, entry |-> <<>>,
                         notified |-> <<InitSuccess>>]
    /\ seriesSelect' = [value |-> Placeholder, options |-> SeriesOptions]
    /\ display' = calculatePrice(InitialQuote, display)
    /\ UNCHANGED <<inputText, modelSelect, powerSelect, waterCoolerChecked,
                   accessoryChecked, otherAccessoryChecked, optionsRendered,
                   localStorage, tierVars, timerVars>>

\* addHistory without its `if (!this.selectedMachine) return`, reading the
\* machine's fields through optional chaining.
addHistory_NoGuard(id, date, rejects) ==
    LET calc == calculatePrice(Quote, display)
        machine == IF selectedMachine = NoSelection
                   THEN [series |-> Undefined, model |-> Undefined, power |-> Undefined]
                   ELSE MachineOf(selectedMachine)
        item == historyItem(id, date, calc.total, machine, quantity)
        saved == saveToLocalStorage("quoteHistory", unshift(history, item), rejects)
    IN  [history |-> unshift(history, item),
         store |-> saved.store,
         list |-> unshift(history, item),
         display |-> calc,
         failed |-> IF saved.failed THEN {"quoteHistory"} ELSE {},
         threw |-> FALSE,
         entry |-> <<item>>]

\* What one call of addHistory does, for the id and date it draws and a store
\* that accepts or rejects the write: the fields it leaves behind.
addHistory(id, date, rejects) ==
    IF selectedMachine = NoSelection
    THEN [history |-> history, store |-> localStorage, list |-> historyList,
          display |-> display, failed |-> {}, threw |-> FALSE, entry |-> <<>>]
    ELSE LET calc == calculatePrice(Quote, display)
             item == historyItem(id, date, calc.total, MachineOf(selectedMachine), quantity)
             saved == saveToLocalStorage("quoteHistory", unshift(history, item), rejects)
         IN  IF calc.threw \/ ~IsArray(history)
             THEN [history |-> history, store |-> localStorage, list |-> historyList,
                   display |-> calc, failed |-> {}, threw |-> TRUE, entry |-> <<>>]
             ELSE [history |-> unshift(history, item),
                   store |-> saved.store,
                   list |-> IF saved.threw THEN historyList ELSE unshift(history, item),
                   display |-> calc,
                   failed |-> IF saved.failed THEN {"quoteHistory"} ELSE {},
                   threw |-> saved.threw,
                   entry |-> <<item>>]

AddHistory(id, date, rejects) ==
    /\ booted
    /\ Cardinality(DOMAIN history) < MaxHistory
    /\ history' = addHistory(id, date, rejects).history
    /\ localStorage' = addHistory(id, date, rejects).store
    /\ historyList' = addHistory(id, date, rejects).list
    /\ display' = addHistory(id, date, rejects).display
    /\ lastOp' = [name |-> "addHistory",
                  failed |-> addHistory(id, date, rejects).failed,
                  threw |-> addHistory(id, date, rejects).threw,
                  entry |-> addHistory(id, date, rejects).entry,
                  notified |-> IF addHistory(id, date, rejects).threw
                               THEN <<UncaughtError>> ELSE <<>>]
    /\ UNCHANGED <<quantity, exchangeRate, internationalShipping, domesticShipping,
                   otherFees, selectionVars, inputText, pageVars, booted, templates,
                   tierVars, timerVars, startup>>

\* clearHistory, as either listener of #clearHistoryBtn calls it.
ClearHistory(rejects) ==
    /\ booted
    /\ history' = <<>>
    /\ LET saved == saveToLocalStorage("quoteHistory", <<>>, rejects)
       IN  /\ localStorage' = saved.store
           /\ historyList' = IF saved.threw THEN historyList ELSE <<>>
           /\ lastOp' = [name |-> "clearHistory",
                         failed |-> IF saved.failed THEN {"quoteHistory"} ELSE {},
                         threw |-> saved.threw, entry |-> <<>>,
                         notified |-> IF saved.threw THEN <<UncaughtError>>
                                      ELSE <<HistoryCleared>>]
    /\ UNCHANGED <<appVars, booted, templates, tierVars, timerVars, startup>>

\* A call of calculatePrice that no input event caused (window.app.calculatePrice()).
CalculatePriceCall ==
    /\ booted
    /\ display' = calculatePrice(Quote, display)
    /\ UNCHANGED <<quantity, exchangeRate, internationalShipping, domesticShipping,
                   otherFees, selectionVars, inputText, pageVars, tierVars,
                   storeVars, timerVars, startup>>

\* The series picked and the quantities typed while the history is exercised.
HistorySeries == { "KH-1390" }

HistoryQuantityTexts == { <<"1", "0">> }

HistoryNext ==
    \/ \E rejectsHistory \in BOOLEAN, rejectsTemplates \in BOOLEAN :
          AppInit(rejectsHistory, rejectsTemplates)
    \/ \E series \in HistorySeries : booted /\ SeriesChange(series)
    \/ \E model \in ModelOptionsFor(seriesSelect.value) : booted /\ ModelChange(model)
    \/ \E power \in PickedPowers : booted /\ PowerChange(power)
    \/ \E text \in HistoryQuantityTexts : booted /\ QuantityInput(text)
    \/ \E id \in UniqueIds, date \in DateTimes, rejects \in BOOLEAN :
          AddHistory(id, date, rejects)
    \/ \E rejects \in BOOLEAN : ClearHistory(rejects)
    \/ CalculatePriceCall

HistoryInit ==
    /\ InitPage
    /\ startup = <<"setupErrorHandling", "bindEventListeners">>
    /\ InitTierIdle
    /\ InitTimerIdle

HistorySpec == HistoryInit /\ [][HistoryNext]_vars

(***************************************************************************)
(* Properties of the resolver (checked under TierSpec).                    *)
(***************************************************************************)
\* A tier table that partitions the positive integers: starts at 1, each tier
\* bounded and followed by the tier starting right after it, the last unbounded.
WellFormed(tiers) ==
    /\ Len(tiers) >= 1
    /\ tiers[1].min = 1
    /\ \A i \in 1..(Len(tiers) - 1) :
          /\ tiers[i].max # Null
          /\ tiers[i].max >= tiers[i].min
          /\ tiers[i + 1].min = tiers[i].max + 1
    /\ tiers[Len(tiers)].max = Null

\* The tiers of `tiers` whose range holds q, stated on the ranges themselves.
TiersHolding(q, tiers) ==
    { i \in 1..Len(tiers) :
        tiers[i].min <= q /\ (tiers[i].max = Null \/ q <= tiers[i].max) }

\* The quantity the harness passed, as a number.
TierQuantityNumber == ParseInt(tierQuantity)

\* C1: for a well-formed tier list and a quantity q >= 1, calculatePriceByTier
\* returns the price of the one tier whose range holds q; on the table
\* [1-9: 10000, 10-99: 9500, 100+: 9000] it returns 10000 for 5, 9500 for 50 and
\* 9000 for 500.
C1_ResolverReturnsTheMatchingTier ==
    /\ (/\ tierResult.called
        /\ WellFormed(priceTiers)
        /\ ~TierQuantityNumber.nan
        /\ TierQuantityNumber.val >= 1)
       => /\ Cardinality(TiersHolding(TierQuantityNumber.val, priceTiers)) = 1
          /\ \A i \in TiersHolding(TierQuantityNumber.val, priceTiers) :
                tierResult.value = priceTiers[i].price
    /\ tierResult.called
       => /\ calculatePriceByTier(<<"5">>, Tiers(10000, 9500, 9000)) = Money(10000)
          /\ calculatePriceByTier(<<"5", "0">>, Tiers(10000, 9500, 9000)) = Money(9500)
          /\ calculatePriceByTier(<<"5", "0", "0">>, Tiers(10000, 9500, 9000))
               = Money(9000)

\* C1 witness: a well-formed three-tier table with three different prices was
\* resolved for a quantity of its middle tier, and that tier's price came back.
C1_Witness ==
    /\ tierResult.called
    /\ WellFormed(priceTiers)
    /\ Len(priceTiers) = 3
    /\ priceTiers[1].price # priceTiers[2].price
    /\ priceTiers[3].price # priceTiers[2].price
    /\ ~TierQuantityNumber.nan
    /\ TiersHolding(TierQuantityNumber.val, priceTiers) = {2}
    /\ tierResult.value = priceTiers[2].price

\* C2: for a non-empty tier list with gaps and a quantity q >= 1 that no tier
\* holds, calculatePriceByTier returns the price of the last tier of the list.
C2_UnmatchedQuantityGetsLastTier ==
    (/\ tierResult.called
     /\ Len(priceTiers) >= 1
     /\ ~TierQuantityNumber.nan
     /\ TierQuantityNumber.val >= 1
     /\ TiersHolding(TierQuantityNumber.val, priceTiers) = {})
    => tierResult.value = priceTiers[Len(priceTiers)].price

\* C2 witness: a gapped table of several tiers, a quantity that falls into the
\* gap, and the last tier's price (different from the first's) came back.
C2_Witness ==
    /\ tierResult.called
    /\ Len(priceTiers) >= 2
    /\ ~TierQuantityNumber.nan
    /\ TierQuantityNumber.val >= 1
    /\ TiersHolding(TierQuantityNumber.val, priceTiers) = {}
    /\ priceTiers[1].price # priceTiers[Len(priceTiers)].price
    /\ tierResult.value = priceTiers[Len(priceTiers)].price

(***************************************************************************)
(* Properties of the quote calculator (checked under Spec).                *)
(***************************************************************************)
\* The flat price of the item with this id in a built-in list, 0 when the
\* list holds no such item.
FlatPrice(items, id) ==
    LET hits == {i \in 1..Len(items) : items[i].id = id}
    IN  IF hits = {} THEN 0 ELSE items[CHOOSE i \in hits : TRUE].price

RECURSIVE SumOfFlatPrices(_, _)
\* The sum of the flat prices of a set of ids.
SumOfFlatPrices(items, ids) ==
    IF ids = {} THEN 0
    ELSE LET id == CHOOSE x \in ids : TRUE
         IN  FlatPrice(items, id) + SumOfFlatPrices(items, ids \ {id})

Range(seq) == {seq[i] : i \in 1..Len(seq)}

\* C3: with a machine selected, the machinePrice calculatePrice computes equals
\* resolvePrice(quantity, priceTiers) * quantity for the specified resolver
\* (first matching tier, else the last tier's price), for every quantity.
C3_MachinePriceFollowsResolver ==
    selectedMachine # NoSelection
    => display.details.machinePrice
         = calculatePriceByTier(NumberToString(quantity),
                                MachineOf(selectedMachine).priceTiers) * quantity

\* C4: the total calculatePrice returns and hands to the display is exactly
\* machinePrice + waterCoolerPrice + accessoriesPrice + otherAccessoriesPrice
\* + internationalShipping + domesticShipping + otherFees.
C4_TotalIsSumOfParts ==
    /\ display.total
         = display.details.machinePrice + display.details.waterCoolerPrice
           + display.details.accessoriesPrice + display.details.otherAccessoriesPrice
           + internationalShipping + domesticShipping + otherFees
    /\ display.cnyPrice = display.total
    /\ display.details.total = display.total
    /\ display.details.internationalShipping = internationalShipping
    /\ display.details.domesticShipping = domesticShipping
    /\ display.details.otherFees = otherFees

\* C4 witness: machine 10000 x 1, water cooler 800, one accessory 1500,
\* shipping 200 + 100, other fees 50: the total is 12650.
C4_Witness ==
    /\ selectedMachine = "kh-1390-50w"
    /\ quantity = 1
    /\ display.details.machinePrice = Money(10000)
    /\ display.details.waterCoolerPrice = Money(800)
    /\ display.details.accessoriesPrice = Money(1500)
    /\ display.details.otherAccessoriesPrice = 0
    /\ internationalShipping = Money(200)
    /\ domesticShipping = Money(100)
    /\ otherFees = Money(50)
    /\ display.total = Money(12650)

\* C5: waterCoolerPrice is the selected water cooler's flat price times the
\* quantity, and 0 when none is selected or the id is unknown.
C5_WaterCoolerPriceScalesWithQuantity ==
    display.details.waterCoolerPrice
      = IF selectedWaterCooler = NoSelection THEN 0
        ELSE FlatPrice(defaultWaterCoolers, selectedWaterCooler) * quantity

\* C5 witness: the 800 water cooler at quantity 10 is priced 8000.
C5_Witness ==
    /\ selectedWaterCooler = "water-cooler-50w"
    /\ quantity = 10
    /\ display.details.waterCoolerPrice = Money(8000)

\* C6: accessoriesPrice and otherAccessoriesPrice are the sums of the flat prices
\* of the selected accessories and other accessories, and a step that keeps the
\* selections (a quantity change among them) keeps both.
C6_AccessoryPricesAreFlatSums ==
    /\ [](/\ display.details.accessoriesPrice
               = SumOfFlatPrices(defaultAccessories, Range(selectedAccessories))
          /\ display.details.otherAccessoriesPrice
               = SumOfFlatPrices(defaultOtherAccessories,
                                 Range(selectedOtherAccessories)))
    /\ [][(/\ selectedAccessories' = selectedAccessories
           /\ selectedOtherAccessories' = selectedOtherAccessories)
          => /\ display'.details.accessoriesPrice = display.details.accessoriesPrice
             /\ display'.details.otherAccessoriesPrice
                  = display.details.otherAccessoriesPrice]_vars

\* C6 witness: two accessories (1500 + 200) and one other accessory (2000) at
\* quantity 10 are priced 1700 and 2000.
C6_Witness ==
    /\ Len(selectedAccessories) = 2
    /\ Len(selectedOtherAccessories) = 1
    /\ quantity = 10
    /\ display.details.accessoriesPrice = Money(1700)
    /\ display.details.otherAccessoriesPrice = Money(2000)

\* C7: calculatePrice never fails, a missing machine, water cooler or accessory
\* selection contributes 0, and with no machine, quantity 1 and the 1500
\* accessory alone the total is 1500.
C7_MissingSelectionsContributeZero ==
    /\ ~display.threw
    /\ selectedMachine = NoSelection => display.details.machinePrice = 0
    /\ selectedWaterCooler = NoSelection => display.details.waterCoolerPrice = 0
    /\ selectedAccessories = <<>> => display.details.accessoriesPrice = 0
    /\ selectedOtherAccessories = <<>> => display.details.otherAccessoriesPrice = 0
    /\ (/\ selectedMachine = NoSelection
        /\ selectedWaterCooler = NoSelection
        /\ selectedAccessories = <<>>
        /\ selectedOtherAccessories = <<>>)
       => display.total = internationalShipping + domesticShipping + otherFees
    /\ (/\ selectedMachine = NoSelection
        /\ quantity = 1
        /\ selectedWaterCooler = NoSelection
        /\ selectedAccessories = <<"accessory-laser-tube">>
        /\ selectedOtherAccessories = <<>>
        /\ internationalShipping + domesticShipping + otherFees = 0)
       => display.total = Money(1500)

\* C7 witness: no machine, quantity 1, the 1500 accessory alone: machinePrice 0
\* and total 1500, without a failure.
C7_Witness ==
    /\ selectedMachine = NoSelection
    /\ quantity = 1
    /\ selectedAccessories = <<"accessory-laser-tube">>
    /\ ~display.threw
    /\ display.details.machinePrice = 0
    /\ display.total = Money(1500)

\* C8: in every reachable state the quantity used for pricing is an integer >= 1.
C8_QuantityAtLeastOne ==
    /\ quantity >= 1
    /\ display.details.quantity >= 1

\* C9: in every reachable state the exchange rate is strictly positive, so the
\* foreign total is no division by zero and is not negative when the local total
\* is not.
C9_ExchangeRatePositive ==
    /\ exchangeRate > 0
    /\ display.usdPrice.den > 0
    /\ display.total >= 0 => display.usdPrice.num >= 0

\* The texts "0" and those without any digit.
ZeroOrNonNumeric(text) ==
    \/ text = <<"0">>
    \/ \A i \in 1..Len(text) : ~IsDigit(text[i])

\* C10: when 0 or a non-numeric text was typed into the exchange-rate input, the
\* exchange rate is exactly 6.5 and the recalculation showed localTotal / 6.5
\* without failing.
C10_ZeroOrNonNumericRateBecomesDefault ==
    (inputText.exchangeRate # <<>> /\ ZeroOrNonNumeric(inputText.exchangeRate))
    => /\ exchangeRate = 65
       /\ ~display.threw
       /\ display.usdPrice = [num |-> display.total, den |-> 65]

\* C10 witness: "0" was typed as the rate while the quote totals 12650: the rate
\* is 6.5 and the foreign total is 12650 / 6.5.
C10_Witness ==
    /\ inputText.exchangeRate = <<"0">>
    /\ exchangeRate = 65
    /\ display.total = Money(12650)
    /\ display.usdPrice = [num |-> Money(12650), den |-> 65]

(***************************************************************************)
(* The numeric inputs on their own: every fee input receives empty,        *)
(* numeric, negative and non-numeric text.                                 *)
(***************************************************************************)
FeeTexts == { <<>>, <<"2", "0", "0">>, <<"-", "5">>, <<"a", "b", "c">> }

InputNext ==
    \/ \E text \in FeeTexts : InternationalShippingInput(text)
    \/ \E text \in FeeTexts : DomesticShippingInput(text)
    \/ \E text \in FeeTexts : OtherFeesInput(text)
    \/ \E text \in QuantityTexts : QuantityInput(text)
    \/ \E text \in ExchangeRateTexts : ExchangeRateInput(text)

InputSpec == Init /\ [][InputNext]_vars

\* C11: after any sequence of fee input events, negative and non-numeric
\* entries included, internationalShipping, domesticShipping and otherFees are
\* each >= 0 (an invalid entry yields 0), in the state and in the breakdown
\* shown.
C11_FeesNeverNegative ==
    /\ internationalShipping >= 0
    /\ domesticShipping >= 0
    /\ otherFees >= 0
    /\ display.details.internationalShipping >= 0
    /\ display.details.domesticShipping >= 0
    /\ display.details.otherFees >= 0

(***************************************************************************)
(* Properties of the history and the store (checked under HistorySpec).    *)
(***************************************************************************)
\* C12: calculatePrice has no hidden state: a call changes none of quantity,
\* exchangeRate, the fees, selectedMachine, selectedWaterCooler,
\* selectedAccessories, selectedOtherAccessories nor the history, and a call
\* that follows another with no event in between returns the same total and
\* passes the same breakdown to the display.
C12_CalculatePriceHasNoHiddenState ==
    [][CalculatePriceCall
       => /\ display' = display
          /\ UNCHANGED <<quantity, exchangeRate, internationalShipping, domesticShipping,
                         otherFees, selectedMachine, selectedWaterCooler,
                         selectedAccessories, selectedOtherAccessories>>
          /\ history' = history]_vars

\* C12 witness: with the 50W machine selected, quantity 10 and an entry in the
\* history, what is shown is what a further call of calculatePrice returns:
\* 95000.
C12_Witness ==
    /\ booted
    /\ selectedMachine = "kh-1390-50w"
    /\ quantity = 10
    /\ Len(history) >= 1
    /\ calculatePrice(Quote, display) = display
    /\ display.total = Money(95000)

\* C13: a successful addHistory (a machine is selected) turns the history L
\* into [entry] ++ L: the new entry is at index 0, built from the total and the
\* selection, the previous entries follow in their order, the length grows by
\* one; an entry equal to one already listed is added all the same.
C13_AddHistoryPrepends ==
    [][(/\ selectedMachine # NoSelection
        /\ \E id \in UniqueIds, date \in DateTimes, rejects \in BOOLEAN :
               AddHistory(id, date, rejects))
       => /\ Len(history') = Len(history) + 1
          /\ \A i \in 1..Len(history) : history'[i + 1] = history[i]
          /\ history'[1].total = <<"CNY ">> \o toFixed2(display'.total)
          /\ history'[1].details[1] = MachineOf(selectedMachine).series
          /\ history'[1] \in {history[i] : i \in 1..Len(history)}
                => Len(history') = Len(history) + 1]_vars

\* C13 witness: addHistory was called twice on the same quote and drew the same
\* id: the history holds the two equal entries.
C13_Witness ==
    /\ booted
    /\ lastOp.name = "addHistory"
    /\ Len(history) = 2
    /\ history[1] = history[2]
    /\ history[1] = lastOp.entry[1]

\* C14: an entry in the history is never modified and leaves it only through
\* clearHistory, which removes all entries at once: every step leaves the
\* history as it is, prepends one entry to it, or is a clearHistory that empties
\* it.
C14_EntriesLeaveOnlyByClearing ==
    [][booted
       => \/ history' = history
          \/ /\ Len(history') = Len(history) + 1
             /\ \A i \in 1..Len(history) : history'[i + 1] = history[i]
          \/ /\ history' = <<>>
             /\ \E rejects \in BOOLEAN : ClearHistory(rejects)]_vars

\* C14 witness: the entry an earlier session saved is still listed, unchanged,
\* behind an entry for a quantity of 10 that addHistory put before it.
C14_Witness ==
    /\ booted
    /\ lastOp.name = "addHistory"
    /\ Len(history) = 2
    /\ history[2] = EarlierEntry
    /\ history[1].details = <<"KH-1390", " ", "1390", " ", "50W", " x ", "1", "0">>
    /\ history[1].total = <<"CNY ", "9", "5", "0", "0", "0", ".", "0", "0">>

\* The items getFromLocalStorage answers with its default value: a missing key,
\* the empty text, a text that cannot be parsed.
NothingReadable == { Missing, EmptyText, CorruptText }

MachineOnlyTotal ==
    IF selectedMachine = NoSelection THEN 0
    ELSE calculatePriceByTier(NumberToString(quantity),
                              MachineOf(selectedMachine).priceTiers) * quantity

\* C16: when the store rejected a read or a write during loadHistory,
\* addHistory or clearHistory, the operation completed without throwing, the
\* history in memory (and the list rendered from it) reflects the operation,
\* and the calculatePrice calls since return the correct total.
C16_StoreFailuresAreAbsorbed ==
    (booted /\ lastOp.failed # {})
    => /\ ~lastOp.threw
       /\ historyList = history
       /\ (lastOp.name = "init" /\ "quoteHistory" \in lastOp.failed) => history = <<>>
       /\ lastOp.name = "addHistory" => history = lastOp.entry \o Tail(history)
       /\ lastOp.name = "clearHistory" => history = <<>>
       /\ ~display.threw
       /\ display.total = MachineOnlyTotal
       /\ calculatePrice(Quote, display).total = MachineOnlyTotal

\* C16 witness: the store rejected the write of clearHistory (it still holds the
\* earlier session's list), the history in memory is empty, and the quote of 10
\* machines made since shows 95000.
C16_Witness ==
    /\ booted
    /\ lastOp.name = "clearHistory"
    /\ lastOp.failed = {"quoteHistory"}
    /\ localStorage.quoteHistory = JSONstringify(<<EarlierEntry>>)
    /\ history = <<>>
    /\ historyList = <<>>
    /\ selectedMachine = "kh-1390-50w"
    /\ quantity = 10
    /\ display.total = Money(95000)

\* C17: every failed store access (a read or a write of quoteHistory or
\* quoteTemplates that throws) is followed by a notification that reports it to
\* the user.
C17_StoreFailuresAreNotified ==
    (booted /\ lastOp.failed # {})
    => \E i \in 1..Len(lastOp.notified) : lastOp.notified[i].type # "success"

\* C20: with a working store, after every addHistory that added an entry and
\* every clearHistory, the list stored under quoteHistory is the history in
\* memory, entry for entry, and a loadHistory performed then reads back exactly
\* that list.
C20_PersistedHistoryEqualsMemory ==
    (/\ booted
     /\ lastOp.failed = {}
     /\ \/ lastOp.name = "addHistory" /\ lastOp.entry # <<>>
        \/ lastOp.name = "clearHistory")
    => /\ localStorage.quoteHistory.kind = "json"
       /\ Len(localStorage.quoteHistory.value) = Len(history)
       /\ \A i \in 1..Len(history) : localStorage.quoteHistory.value[i] = history[i]
       /\ ~getFromLocalStorage("quoteHistory", <<>>, FALSE).failed
       /\ getFromLocalStorage("quoteHistory", <<>>, FALSE).value = history

\* C20 witness: addHistory stored a list of two different entries, the newest
\* first, and that list is what a load reads back.
C20_Witness ==
    /\ booted
    /\ lastOp.name = "addHistory"
    /\ lastOp.failed = {}
    /\ Len(history) = 2
    /\ history[1] # history[2]
    /\ history[1] = lastOp.entry[1]
    /\ localStorage.quoteHistory = JSONstringify(history)
    /\ getFromLocalStorage("quoteHistory", <<>>, FALSE).value = history

(***************************************************************************)
(* Properties of the built-in tier tables and of the display (checked      *)
(* under Spec).                                                            *)
(***************************************************************************)
\* Largest quantity probed against the built-in tier tables: it passes the last
\* boundary, 99 / 100.
MaxProbeQty == 101

\* Every built-in priceTiers list is well-formed, ascending by min, and each
\* quantity from 1 to MaxProbeQty is in exactly one of its tiers.
BuiltInTiersWellFormed ==
    \A m \in 1..Len(defaultMachines) :
        LET tiers == defaultMachines[m].priceTiers
        IN  /\ WellFormed(tiers)
            /\ \A i \in 1..(Len(tiers) - 1) : tiers[i].min < tiers[i + 1].min
            /\ \A q \in 1..MaxProbeQty : Cardinality(TiersHolding(q, tiers)) = 1

\* C18: every priceTiers list of the built-in data is well-formed (ascending by
\* min, the first min is 1, each min is the previous max + 1, the last tier is
\* unbounded), so every quantity >= 1, the one of the quote included, matches
\* exactly one tier of the selected machine.
C18_BuiltInTiersWellFormed ==
    /\ BuiltInTiersWellFormed
    /\ (selectedMachine # NoSelection /\ quantity >= 1)
       => /\ WellFormed(MachineOf(selectedMachine).priceTiers)
          /\ Cardinality(TiersHolding(quantity, MachineOf(selectedMachine).priceTiers)) = 1

\* C18 witness: the KH-1610 50W machine is quoted for 10 units, the first
\* quantity of its second tier, and only that tier holds 10: 11500 a unit.
C18_Witness ==
    /\ selectedMachine = "kh-1610-50w"
    /\ quantity = 10
    /\ TiersHolding(quantity, MachineOf(selectedMachine).priceTiers) = {2}
    /\ display.details.machinePrice = Money(11500) * 10

\* C19: after every input or selection event the total and the breakdown last
\* passed to the display are those calculatePrice yields for the state the
\* event left: the displayed total is never stale.
C19_DisplayIsNeverStale ==
    /\ ~display.threw
    /\ display = calculatePrice(Quote, display)
    /\ display.cnyPrice = display.total
    /\ display.details.total = display.total
    /\ display.details.quantity = quantity
    /\ display.usdPrice.den = exchangeRate

\* C19 witness: after a machine, a water cooler, the quantity 10 and the rate
\* 7.2 were entered, the display shows that state's total, 10 machines and 10
\* coolers, over 7.2.
C19_Witness ==
    /\ selectedMachine = "kh-1390-50w"
    /\ selectedWaterCooler = "water-cooler-50w"
    /\ quantity = 10
    /\ exchangeRate = 72
    /\ display = calculatePrice(Quote, display)
    /\ display.total = Money(9500) * 10 + Money(800) * 10
    /\ display.usdPrice = [num |-> Money(103000), den |-> 72]

(***************************************************************************)
(* Properties of addHistory without a machine (checked under HistorySpec)  *)
(* and of the machine selection (checked under Spec).                      *)
(***************************************************************************)
\* The series of the built-in machines.
MachineSeries == { defaultMachines[i].series : i \in 1..Len(defaultMachines) }

\* C24: addHistory called while no machine is selected is a no-op: the history
\* in memory, the value stored under quoteHistory and the rendered list stay as
\* they are; so every entry in the history names the machine that was selected
\* when it was created.
C24_AddHistoryWithoutMachineIsNoOp ==
    /\ [][(/\ selectedMachine = NoSelection
            /\ \E id \in UniqueIds, date \in DateTimes, rejects \in BOOLEAN :
                   AddHistory(id, date, rejects))
           => UNCHANGED <<history, localStorage, historyList>>]_vars
    /\ [](booted => \A i \in 1..Len(history) : history[i].details[1] \in MachineSeries)

\* C24 witness: addHistory was called with no machine selected: it built no
\* entry, and the entry of the earlier session is still the whole history, in
\* memory, in the store and on the page.
C24_Witness ==
    /\ booted
    /\ selectedMachine = NoSelection
    /\ lastOp.name = "addHistory"
    /\ lastOp.entry = <<>>
    /\ history = <<EarlierEntry>>
    /\ localStorage.quoteHistory = JSONstringify(<<EarlierEntry>>)
    /\ historyList = <<EarlierEntry>>

\* C25: a series-change or model-change event leaves selectedMachine null and
\* the recalculation of that event shows a machinePrice of 0; selectedMachine
\* stays null until a power-change event selects a machine.
C25_SeriesOrModelChangeClearsMachine ==
    /\ [][(\/ \E series \in SeriesOptions : SeriesChange(series)
           \/ \E model \in ModelOptionsFor(seriesSelect.value) : ModelChange(model))
          => /\ selectedMachine' = NoSelection
             /\ ~display'.threw
             /\ display'.details.machinePrice = 0
             /\ display' = calculatePrice([Quote EXCEPT !.selectedMachine = NoSelection],
                                          display)]_vars
    /\ [][(selectedMachine = NoSelection /\ selectedMachine' # NoSelection)
          => \E power \in PickedPowers : PowerChange(power)]_vars

\* C25 witness: the series was changed to KH-1610 while 10 units and a water
\* cooler were quoted: no machine is selected, its price is 0, and the total is
\* the 10 coolers alone.
C25_Witness ==
    /\ seriesSelect.value = "KH-1610"
    /\ modelSelect.value = Placeholder
    /\ selectedMachine = NoSelection
    /\ quantity = 10
    /\ selectedWaterCooler = "water-cooler-50w"
    /\ display.details.machinePrice = 0
    /\ display.total = Money(800) * 10

\* C26: in every reachable state the selected machine agrees with the three
\* selectors: selectedMachine is non-null only if #seriesSelect, #modelSelect and
\* #powerSelect all hold a non-empty value, and it is the machine of exactly
\* that series, model and power; after #powerSelect is set back to its
\* placeholder, selectedMachine is null.
C26_MachineAgreesWithSelectors ==
    /\ selectedMachine # NoSelection
       => /\ seriesSelect.value # Placeholder
          /\ modelSelect.value # Placeholder
          /\ powerSelect.value # Placeholder
          /\ MachineOf(selectedMachine).series = seriesSelect.value
          /\ MachineOf(selectedMachine).model = modelSelect.value
          /\ MachineOf(selectedMachine).power = powerSelect.value
    /\ powerSelect.value = Placeholder => selectedMachine = NoSelection

\* C27: in every reachable state the selections used for pricing are what the
\* page shows as selected: selectedWaterCooler is the checked water-cooler radio
\* (none when none is checked), selectedAccessories and
\* selectedOtherAccessories are exactly the checked checkboxes, also after a
\* series or model change re-rendered the lists with nothing checked.
C27_SelectionsEqualCheckedOptions ==
    /\ selectedWaterCooler = waterCoolerChecked
    /\ Range(selectedAccessories) = accessoryChecked
    /\ Len(selectedAccessories) = Cardinality(accessoryChecked)
    /\ Range(selectedOtherAccessories) = otherAccessoryChecked
    /\ Len(selectedOtherAccessories) = Cardinality(otherAccessoryChecked)

(***************************************************************************)
(* Quantities around the tier boundaries: every machine can be selected    *)
(* and the quantity typed is 1, 9, 10, 99, 100 or 101.                     *)
(***************************************************************************)
BoundaryQuantityTexts ==
    { <<"1">>, <<"9">>, <<"1", "0">>, <<"9", "9">>, <<"1", "0", "0">>, <<"1", "0", "1">> }

\* Every power #powerSelect can offer, and its placeholder.
AllPowers ==
    {Placeholder} \cup {defaultMachines[i].power : i \in 1..Len(defaultMachines)}

BoundaryNext ==
    \/ \E series \in SeriesOptions : SeriesChange(series)
    \/ \E model \in ModelOptionsFor(seriesSelect.value) : ModelChange(model)
    \/ \E power \in AllPowers : PowerChange(power)
    \/ \E text \in BoundaryQuantityTexts : QuantityInput(text)
    \/ \E id \in ClickedWaterCoolers : WaterCoolerChange(id)

BoundarySpec == Init /\ [][BoundaryNext]_vars

\* A quantity event that raises a quantity >= 1 of a quote with a machine, all
\* other inputs staying as they are.
QuantityRaised ==
    /\ selectedMachine # NoSelection
    /\ 1 <= quantity
    /\ quantity < quantity'
    /\ \E text \in BoundaryQuantityTexts : QuantityInput(text)

\* The total calculatePrice returns for q units of the built-in machine m alone.
TotalOf(m, q) ==
    calculatePrice([InitialQuote EXCEPT !.selectedMachine = defaultMachines[m].id,
                                        !.quantity = q], NoDisplay).total

\* The totals of every built-in machine for the quantities 1 .. MaxProbeQty.
BuiltInTotals ==
    [m \in 1..Len(defaultMachines) |-> [q \in 1..MaxProbeQty |-> TotalOf(m, q)]]

\* C28 as stated: for each built-in machine with all other inputs fixed, the
\* total is non-decreasing in the quantity: for 1 <= q1 < q2, total(q1) <=
\* total(q2), across the tier boundaries 9 / 10 and 99 / 100 too.
C28_TotalNonDecreasingInQuantity ==
    [][QuantityRaised => display.total <= display'.total]_vars

\* C28 as amended: the total is non-decreasing in the quantity for quantities
\* up to 99 (within the first two tiers and across 9 / 10) and for quantities
\* from 100 on; from 99 to 100 it decreases.
C28_TotalNonDecreasingBelowAndAbove100 ==
    /\ [][QuantityRaised
          => /\ (quantity' <= 99 \/ quantity >= 100) => display.total <= display'.total
             /\ (quantity = 99 /\ quantity' = 100) => display.total > display'.total]_vars
    /\ [](\A m \in 1..Len(defaultMachines) :
            /\ \A q1 \in 1..MaxProbeQty, q2 \in 1..MaxProbeQty :
                  (q1 < q2 /\ (q2 <= 99 \/ q1 >= 100))
                  => BuiltInTotals[m][q1] <= BuiltInTotals[m][q2]
            /\ BuiltInTotals[m][99] > BuiltInTotals[m][100])

\* C28 witness: the KH-1390 50W machine with a water cooler is quoted for 100
\* units: 980000, less than the 1019700 of 99 units.
C28_Witness ==
    /\ selectedMachine = "kh-1390-50w"
    /\ selectedWaterCooler = "water-cooler-50w"
    /\ quantity = 100
    /\ display.total = Money(980000)
    /\ display.total < (Money(9500) + Money(800)) * 99

(***************************************************************************)
(* Start-up, one statement at a time: mainModule.init() when main.js is    *)
(* evaluated, mainModule.initApp on DOMContentLoaded, appModule.init       *)
(* unfolded into its four calls.  No other event is processed meanwhile.   *)
(***************************************************************************)
StartupInit ==
    /\ InitPage
    /\ startup = <<>>
    /\ InitTierIdle
    /\ InitTimerIdle

\* The four statements below register handlers or listeners, or initialise the
\* UI module: of the state modelled here only the record of their having run
\* changes.

\* mainModule.setupErrorHandling: window error and unhandledrejection handlers.
SetupErrorHandling ==
    /\ nextStep(startup) = "setupErrorHandling"
    /\ startup' = Append(startup, "setupErrorHandling")
    /\ UNCHANGED <<appVars, storeVars, tierVars, timerVars>>

\* mainModule.bindEventListeners: DOMContentLoaded, history panel, global events.
BindEventListeners ==
    /\ nextStep(startup) = "bindEventListeners"
    /\ startup' = Append(startup, "bindEventListeners")
    /\ UNCHANGED <<appVars, storeVars, tierVars, timerVars>>

\* DOMContentLoaded fires; initApp starts with uiModule.init().
UiModuleInit ==
    /\ nextStep(startup) = "ui.module.init"
    /\ startup' = Append(startup, "ui.module.init")
    /\ UNCHANGED <<appVars, storeVars, tierVars, timerVars>>

\* appModule.initEventListeners.
InitEventListeners ==
    /\ nextStep(startup) = "initEventListeners"
    /\ startup' = Append(startup, "initEventListeners")
    /\ UNCHANGED <<appVars, storeVars, tierVars, timerVars>>

\* appModule.initDefaultData, with loadHistory and loadTemplates.
InitDefaultData(rejectsHistory, rejectsTemplates) ==
    /\ nextStep(startup) = "initDefaultData"
    /\ startup' = Append(startup, "initDefaultData")
    /\ exchangeRate' = DefaultExchangeRate
    /\ quantity' = DefaultQuantity
    /\ internationalShipping' = DefaultFee
    /\ domesticShipping' = DefaultFee
    /\ otherFees' = DefaultFee
    /\ selectedMachine' = NoSelection
    /\ selectedWaterCooler' = NoSelection
    /\ selectedAccessories' = <<>>
    /\ selectedOtherAccessories' = <<>>
    /\ LET loadedHistory == getFromLocalStorage("quoteHistory", <<>>, rejectsHistory)
           loadedTemplates == getFromLocalStorage("quoteTemplates", <<>>, rejectsTemplates)
       IN  /\ history' = loadedHistory.value
           /\ historyList' = IF IsArray(loadedHistory.value) THEN loadedHistory.value
                             ELSE <<>>
           /\ templates' = loadedTemplates.value
           /\ lastOp' = [name |-> "init",
                         failed |-> (IF loadedHistory.failed THEN {"quoteHistory"} ELSE {})
                                    \cup (IF loadedTemplates.failed THEN {"quoteTemplates"}
                                          ELSE {}),
                         threw |-> FALSE, entry |-> <<>>, notified |-> <<>>]
    /\ UNCHANGED <<inputText, pageVars, display, booted, localStorage, tierVars,
                   timerVars>>

\* appModule.updateMachineOptions: #seriesSelect receives the series.
UpdateMachineOptions ==
    /\ nextStep(startup) = "updateMachineOptions"
    /\ startup' = Append(startup, "updateMachineOptions")
    /\ seriesSelect' = [value |-> Placeholder, options |-> SeriesOptions]
    /\ UNCHANGED <<quantity, exchangeRate, internationalShipping, domesticShipping,
                   otherFees, selectionVars, inputText, modelSelect, powerSelect,
                   waterCoolerChecked, accessoryChecked, otherAccessoryChecked,
                   optionsRendered, display, storeVars, tierVars, timerVars>>

\* The calculatePrice that ends appModule.init.
FirstCalculatePrice ==
    /\ nextStep(startup) = "calculatePrice"
    /\ startup' = Append(startup, "calculatePrice")
    /\ display' = calculatePrice(Quote, display)
    /\ booted' = TRUE
    /\ UNCHANGED <<quantity, exchangeRate, internationalShipping, domesticShipping,
                   otherFees, selectionVars, inputText, pageVars, history, templates,
                   localStorage, historyList, lastOp, tierVars, timerVars>>

\* initApp's notification.show after app.init() returned.
ShowInitSuccess ==
    /\ nextStep(startup) = "notification.show"
    /\ startup' = Append(startup, "notification.show")
    /\ lastOp' = [lastOp EXCEPT !.notified = <<InitSuccess>>]
    /\ UNCHANGED <<appVars, booted, history, templates, localStorage, historyList,
                   tierVars, timerVars>>

StartupNext ==
    \/ SetupErrorHandling
    \/ BindEventListeners
    \/ UiModuleInit
    \/ \E rejectsHistory \in BOOLEAN, rejectsTemplates \in BOOLEAN :
          InitDefaultData(rejectsHistory, rejectsTemplates)
    \/ InitEventListeners
    \/ UpdateMachineOptions
    \/ FirstCalculatePrice
    \/ ShowInitSuccess

StartupSpec == StartupInit /\ [][StartupNext]_vars

\* Statement a has run, once only, before statement b, whenever b has run.
RunsBefore(a, b) ==
    \A j \in 1..Len(startup) :
        startup[j] = b
        => /\ \E i \in 1..(j - 1) : startup[i] = a
           /\ \A k \in 1..Len(startup) : startup[k] = b => k = j

\* C21: start-up follows the documented order: error handling is set up before
\* the event listeners are bound; then the UI module is initialised before the
\* application module, which is initialised before the success notification is
\* shown; within appModule.init the default data, history and templates
\* included, is set before the listeners are registered and before the first
\* calculatePrice.
C21_StartupOrder ==
    /\ RunsBefore("setupErrorHandling", "bindEventListeners")
    /\ RunsBefore("bindEventListeners", "ui.module.init")
    /\ RunsBefore("ui.module.init", "initDefaultData")
    /\ RunsBefore("initDefaultData", "initEventListeners")
    /\ RunsBefore("initDefaultData", "calculatePrice")
    /\ RunsBefore("initEventListeners", "updateMachineOptions")
    /\ RunsBefore("updateMachineOptions", "calculatePrice")
    /\ RunsBefore("calculatePrice", "notification.show")
    /\ (\E i \in 1..Len(startup) : startup[i] \in {"initEventListeners", "calculatePrice"})
       => /\ quantity = DefaultQuantity
          /\ exchangeRate = DefaultExchangeRate
          /\ IsArray(history)
          /\ IsArray(templates)
          /\ lastOp.name = "init"
    /\ (\E i \in 1..Len(startup) : startup[i] = "notification.show")
       => /\ booted
          /\ display = calculatePrice(InitialQuote, NoDisplay)
          /\ lastOp.notified = <<InitSuccess>>

\* C21 witness: start-up has run to its end on a store holding an earlier
\* session's history: all eight statements in order, the history loaded, the
\* first total shown, the success notification last.
C21_Witness ==
    /\ startup = <<"setupErrorHandling", "bindEventListeners", "ui.module.init",
                   "initDefaultData", "initEventListeners", "updateMachineOptions",
                   "calculatePrice", "notification.show">>
    /\ booted
    /\ history = <<EarlierEntry>>
    /\ seriesSelect.options = SeriesOptions
    /\ display.total = 0
    /\ lastOp.notified = <<InitSuccess>>

(***************************************************************************)
(* debounce(func, wait): the returned function and its timer.  `timeout`   *)
(* holds the timers this closure has set that are still pending, each with *)
(* the arguments its `later` would pass to func; the handle the code keeps *)
(* is that of the timer set last.  debounceCalls logs the calls made,      *)
(* debounceRuns the executions of func, each with the number of calls made *)
(* by then.  func is taken to return normally.                             *)
(***************************************************************************)
MaxCalls == 4

DebounceArgs == {"a", "b"}

clearTimeout_Keeps(timers) == timers

\* clearTimeout(timeout): the timer set last, if still pending, is cancelled.
clearTimeout(timers) ==
    IF timers = NoTimer THEN NoTimer ELSE SubSeq(timers, 1, Len(timers) - 1)

\* executedFunction(...args): clearTimeout(timeout); timeout = setTimeout(later, wait).
DebouncedCall(args) ==
    /\ Len(debounceCalls) < MaxCalls
    /\ debounceCalls' = Append(debounceCalls, args)
    /\ timeout' = Append(clearTimeout(timeout), args)
    /\ UNCHANGED <<debounceRuns, inThrottle, throttleRuns, throttleLog, appVars,
                   storeVars, tierVars, startup>>

\* A pending timer expires and runs its `later`: clearTimeout(timeout); func(...args).
DebounceTimerFires(i) ==
    /\ i \in DOMAIN timeout
    /\ LET rest == SubSeq(timeout, 1, i - 1) \o SubSeq(timeout, i + 1, Len(timeout))
       IN  timeout' = IF i = Len(timeout) THEN rest ELSE clearTimeout(rest)
    /\ debounceRuns' = Append(debounceRuns,
                              [args |-> timeout[i], after |-> Len(debounceCalls)])
    /\ UNCHANGED <<debounceCalls, inThrottle, throttleRuns, throttleLog, appVars,
                   storeVars, tierVars, startup>>

DebounceNext ==
    \/ \E args \in DebounceArgs : DebouncedCall(args)
    \/ \E i \in 1..MaxCalls : DebounceTimerFires(i)

DebounceSpec == Init /\ [][DebounceNext]_vars

\* The number of calls made when func last ran.
CallsAnswered ==
    IF debounceRuns = <<>> THEN 0 ELSE Last(debounceRuns).after

\* C22: every call of a debounced function cancels the pending timer and
\* starts a new one, so at most one timer is pending and it is the one of the
\* most recent call; func runs only when that timer fires, with the arguments
\* of the most recent call; a burst of calls with no expiry in between is
\* answered by one execution only.
C22_DebounceRunsLastCallOnce ==
    /\ Len(timeout) <= 1
    /\ timeout = IF CallsAnswered = Len(debounceCalls) THEN NoTimer
                 ELSE <<Last(debounceCalls)>>
    /\ \A k \in DOMAIN debounceRuns :
          /\ debounceRuns[k].after \in DOMAIN debounceCalls
          /\ debounceRuns[k].args = debounceCalls[debounceRuns[k].after]
    /\ \A k \in DOMAIN debounceRuns : \A l \in DOMAIN debounceRuns :
          k < l => debounceRuns[k].after < debounceRuns[l].after

\* C22 witness: three calls in a burst, then the timer fired: func ran once,
\* with the third call's arguments, and no timer is left.
C22_Witness ==
    /\ debounceCalls = <<"a", "a", "b">>
    /\ debounceRuns = <<[args |-> "b", after |-> 3]>>
    /\ timeout = NoTimer

(***************************************************************************)
(* throttle(func, limit): the returned function and its limit timer.       *)
(* throttleLog records the calls and the timer expiries in order,          *)
(* throttleRuns the executions of func, each with the position in the log  *)
(* of the call that made it.  func is taken to return normally.            *)
(***************************************************************************)
MaxEvents == 5

ThrottleArgs == {"a", "b"}

CallEvent(args) == [type |-> "call", args |-> args]

Expiry == [type |-> "expiry", args |-> ""]

\* Limit timers set and not yet expired after the first k events.
PendingAt(k) ==
    Cardinality({r \in DOMAIN throttleRuns : throttleRuns[r].at <= k})
    - Cardinality({i \in 1..k : throttleLog[i].type = "expiry"})

throttled_NoFlag(flag, runs, args, at) ==
    [inThrottle |-> flag, runs |-> Append(runs, [args |-> args, at |-> at])]

\* executedFunction(...args): if (!inThrottle) { func.apply(this, args);
\* inThrottle = true; setTimeout(...) }.
throttled(flag, runs, args, at) ==
    IF ~flag
    THEN [inThrottle |-> TRUE, runs |-> Append(runs, [args |-> args, at |-> at])]
    ELSE [inThrottle |-> flag, runs |-> runs]

ThrottledCall(args) ==
    /\ Len(throttleLog) < MaxEvents
    /\ LET outcome == throttled(inThrottle, throttleRuns, args, Len(throttleLog) + 1)
       IN  /\ inThrottle' = outcome.inThrottle
           /\ throttleRuns' = outcome.runs
    /\ throttleLog' = Append(throttleLog, CallEvent(args))
    /\ UNCHANGED <<timeout, debounceCalls, debounceRuns, appVars, storeVars,
                   tierVars, startup>>

\* A limit timer expires: () => inThrottle = false.
LimitTimerFires ==
    /\ Len(throttleLog) < MaxEvents
    /\ PendingAt(Len(throttleLog)) > 0
    /\ inThrottle' = FALSE
    /\ throttleLog' = Append(throttleLog, Expiry)
    /\ UNCHANGED <<throttleRuns, timeout, debounceCalls, debounceRuns, appVars,
                   storeVars, tierVars, startup>>

ThrottleNext ==
    \/ \E args \in ThrottleArgs : ThrottledCall(args)
    \/ LimitTimerFires

ThrottleSpec == Init /\ [][ThrottleNext]_vars

====
